---- MODULE Spec2Model ----
(***************************************************************************)
(* Model of src/src/components.rs: SampleCounter, Buffers (circular sample *)
(* store, two-phase contact detection, detection-event history) and        *)
(* StatusLedMulti (one-hot status LEDs held in the STATUS_LEDS cell).      *)
(***************************************************************************)
EXTENDS Integers, Sequences, FiniteSets, TLC

\* ---- bounds of the model ------------------------------------------------
\* longterm_buffer.len(): 45000 in the source, scaled down.
Capacity == 3
\* Number of insert calls explored from Buffers::init.
MaxInserts == 5
\* Number of insert calls explored from an arbitrary Buffers value.
MaxUnitInserts == 2
\* usize::MAX, scaled down (the arithmetic is kept modulo UsizeMax + 1).
UsizeMax == 15

\* ---- program constants --------------------------------------------------
\* detection_events: [Option<DetectionEvent>; 10]
EventCap == 10
\* Buffers::INIT_TRIGGER_DELTA
INIT_TRIGGER_DELTA == 160
\* u8::MAX
U8Max == 255

\* Sample values fed to insert and found in the buffer.
SampleVals == {0, 30, 200}

\* Result of an arithmetic operation that panics (overflow checks enabled).
Trap == -1
\* Option::None
None == [some |-> FALSE]
Some(v) == [some |-> TRUE, val |-> v]

VARIABLES
    longterm_buffer,   \* Buffers.longterm_buffer : [0..Capacity-1 -> u8]
    current_sample,    \* Buffers.current_sample  : SampleCounter (usize)
    detection_events,  \* Buffers.detection_events: [0..EventCap-1 -> Option]
    await_confirm,     \* Buffers.await_confirm
    STATUS_LEDS,       \* the STATUS_LEDS cell: None or Some(StatusLedMulti)
    build,             \* "debug" (overflow checks panic) or "release" (wrap)
    panicked,          \* a panic has aborted the calling context
    inserted,          \* history: the samples passed to insert, in order
    aligned,           \* history: calls so far were insert, detect_contact, insert, ...
    last,              \* history: what the previous call did
    buffers_claimed,   \* the singleton! storage of Buffers::init is claimed
    BUFFERS,           \* the BUFFERS cell holds the Buffers instance
    arith,             \* the last direct application of a SampleCounter function
    sched              \* execution contexts: critical section, positions, taken LEDs

\* The variables the sequential operations on Buffers and the LEDs leave alone.
aux == <<buffers_claimed, BUFFERS, arith, sched>>

vars == <<longterm_buffer, current_sample, detection_events, await_confirm,
          STATUS_LEDS, build, panicked, inserted, aligned, last,
          buffers_claimed, BUFFERS, arith, sched>>

\* ---- integer arithmetic of the target -----------------------------------
\* usize `a + b`: panics on overflow in a debug build, wraps in release.
UAdd(a, b) ==
    IF a = Trap \/ b = Trap THEN Trap
    ELSE IF a + b <= UsizeMax THEN a + b
    ELSE IF build = "debug" THEN Trap
    ELSE a + b - (UsizeMax + 1)

\* usize `a - b`: panics on underflow in a debug build, wraps in release.
USub(a, b) ==
    IF a = Trap \/ b = Trap THEN Trap
    ELSE IF a >= b THEN a - b
    ELSE IF build = "debug" THEN Trap
    ELSE a - b + (UsizeMax + 1)

\* usize::wrapping_sub: never panics.
WrappingSub(a, b) == (a - b + (UsizeMax + 1)) % (UsizeMax + 1)

\* u8 `a - b`: panics on underflow in a debug build, wraps in release.
U8Sub(a, b) ==
    IF a >= b THEN a - b
    ELSE IF build = "debug" THEN Trap
    ELSE a - b + (U8Max + 1)

\* ---- SampleCounter ------------------------------------------------------
get_counter(c) == c

\* increment written with wrapping_add: the counter wraps to 0 at the maximum.
increment_wrapping(c) == (c + 1) % (UsizeMax + 1)

\* The counter value after SampleCounter::increment: checked_add(1) is only
\* tested, its result is never stored.
increment(c) == c

\* increment takes the set_error path iff checked_add(1) is None.
increment_overflows(c) == c + 1 > UsizeMax

\* wrapping_counter_add folding only when the sum exceeds the limit.
wrapping_counter_add_gt(c, rhs, limit) ==
    IF UAdd(c, rhs) = Trap THEN Trap
    ELSE IF UAdd(c, rhs) > limit THEN USub(rhs, USub(limit, c))
    ELSE UAdd(c, rhs)

wrapping_counter_add(c, rhs, limit) ==
    IF UAdd(c, rhs) = Trap THEN Trap
    ELSE IF UAdd(c, rhs) >= limit THEN USub(rhs, USub(limit, c))
    ELSE UAdd(c, rhs)

\* wrapping_counter_sub without the fold back into [0, limit).
wrapping_counter_sub_nofold(c, rhs, limit) == WrappingSub(c, rhs)

wrapping_counter_sub(c, rhs, limit) ==
    IF WrappingSub(c, rhs) >= limit THEN USub(limit, USub(rhs, c))
    ELSE USub(c, rhs)

\* ---- StatusLedMulti -----------------------------------------------------
\* StatusLedMulti::init: state Alert, alert LED high, the others low.
LedInit ==
    [state |-> "Alert", normal_led |-> FALSE, alert_led |-> TRUE, error_led |-> FALSE]

\* set_error without the Alert arm of its match: the alert LED stays high.
set_error_keep_alert(status) ==
    [state      |-> "Error",
     normal_led |-> IF status.state = "Normal" THEN FALSE ELSE status.normal_led,
     alert_led  |-> status.alert_led,
     error_led  |-> TRUE]

\* set_error on the taken StatusLedMulti (the cell was Some).
set_error(status) ==
    [state      |-> "Error",
     normal_led |-> IF status.state = "Normal" THEN FALSE ELSE status.normal_led,
     alert_led  |-> IF status.state = "Alert" THEN FALSE ELSE status.alert_led,
     error_led  |-> TRUE]

\* The LEDs set_error drives low (its match on the previous state).
set_error_low(status) ==
    IF status.state = "Normal" THEN {"normal"}
    ELSE IF status.state = "Alert" THEN {"alert"}
    ELSE {}

\* The LEDs set_alert drives low (its match on the previous state).
set_alert_low(status) ==
    IF status.state = "Normal" THEN {"normal"}
    ELSE IF status.state = "Error" THEN {"error"}
    ELSE {}

\* set_alert without the Normal arm of its match: the normal LED stays high.
set_alert_keep_normal(status) ==
    [state      |-> "Alert",
     normal_led |-> status.normal_led,
     alert_led  |-> TRUE,
     error_led  |-> IF status.state = "Error" THEN FALSE ELSE status.error_led]

\* set_alert without the Error arm of its match: the error LED is left as it is.
set_alert_keep_error(status) ==
    [state      |-> "Alert",
     normal_led |-> IF status.state = "Normal" THEN FALSE ELSE status.normal_led,
     alert_led  |-> TRUE,
     error_led  |-> status.error_led]

\* set_alert on the taken StatusLedMulti (the cell was Some).
set_alert(status) ==
    [state      |-> "Alert",
     normal_led |-> IF status.state = "Normal" THEN FALSE ELSE status.normal_led,
     alert_led  |-> TRUE,
     error_led  |-> IF status.state = "Error" THEN FALSE ELSE status.error_led]

\* ---- Buffers ------------------------------------------------------------
InBounds(i) == i \in 0..(Capacity - 1)

\* Buffers::detection_idx
detection_idx(c) == USub(get_counter(c), 1)

\* rotate_left(1) in place of rotate_right(1).
rotate_left(ev) ==
    [i \in 0..(EventCap - 1) |-> ev[(i + 1) % EventCap]]

\* [T; N]::rotate_right(1) on detection_events
rotate_right(ev) ==
    [i \in 0..(EventCap - 1) |-> ev[(i + EventCap - 1) % EventCap]]

\* Buffers::add_detection_event (the index current_sample is in bounds)
add_detection_event(ev, c, buf) ==
    [rotate_right(ev) EXCEPT ![0] = Some([counter |-> c, delta |-> buf[get_counter(c)]])]

\* The history record of a call.
NoCall ==
    [op |-> "init", idx |-> {}, armedBefore |-> FALSE, alert |-> FALSE,
     earlier |-> 0, later |-> 0, compared |-> FALSE, evicted |-> None,
     stateBefore |-> "none", lowered |-> {}]

\* No SampleCounter function has been applied directly.
NoArith == [fn |-> "none", v |-> 0, delta |-> 0, limit |-> 0, result |-> 0]

\* Mainline idle, no interrupt handler active, interrupts enabled.
Quiescent ==
    [cs      |-> "none",
     pc      |-> [main |-> "idle", irq |-> "off"],
     target  |-> [main |-> "none", irq |-> "none"],
     held    |-> [main |-> None, irq |-> None],
     cont    |-> "idle",
     pending |-> FALSE,
     noled   |-> FALSE]

\* The empty cell silently swallowed instead of panicking.
NoLedPanic_swallowed(cell) == FALSE

\* STATUS_LEDS.take(cs).expect(NO_LED_PANIC_MSG) panics iff the cell is empty.
NoLedPanic(cell) == ~cell.some

\* ---- state after construction -------------------------------------------
\* Buffers::init and StatusLedMulti::init, published into their cells.
Init ==
    /\ longterm_buffer = [i \in 0..(Capacity - 1) |-> 0]
    /\ current_sample = 0
    /\ detection_events = [i \in 0..(EventCap - 1) |-> None]
    /\ await_confirm = FALSE
    /\ STATUS_LEDS = Some(LedInit)
    /\ build \in {"debug", "release"}
    /\ panicked = FALSE
    /\ inserted = <<>>
    /\ aligned = TRUE
    /\ last = NoCall
    /\ buffers_claimed = TRUE
    /\ BUFFERS = TRUE
    /\ arith = NoArith
    /\ sched = Quiescent

\* A Buffers value with arbitrary field contents (the receiver of a method
\* call), with a wrapped counter and an empty event history.
UnitInit ==
    /\ longterm_buffer \in [0..(Capacity - 1) -> SampleVals]
    /\ current_sample \in 0..(Capacity - 1)
    /\ detection_events = [i \in 0..(EventCap - 1) |-> None]
    /\ await_confirm \in BOOLEAN
    /\ STATUS_LEDS = Some(LedInit)
    /\ build \in {"debug", "release"}
    /\ panicked = FALSE
    /\ inserted = <<>>
    /\ aligned = TRUE
    /\ last = NoCall
    /\ buffers_claimed = TRUE
    /\ BUFFERS = TRUE
    /\ arith = NoArith
    /\ sched = Quiescent

\* An arbitrary Buffers value as in UnitInit, with the STATUS_LEDS cell empty
\* (never initialised, or taken and not replaced).
NoLedInit ==
    /\ longterm_buffer \in [0..(Capacity - 1) -> SampleVals]
    /\ current_sample \in 0..(Capacity - 1)
    /\ detection_events = [i \in 0..(EventCap - 1) |-> None]
    /\ await_confirm \in BOOLEAN
    /\ STATUS_LEDS = None
    /\ build \in {"debug", "release"}
    /\ panicked = FALSE
    /\ inserted = <<>>
    /\ aligned = TRUE
    /\ last = NoCall
    /\ buffers_claimed = TRUE
    /\ BUFFERS = TRUE
    /\ arith = NoArith
    /\ sched = Quiescent

\* Before the first Buffers::init: the singleton storage is unclaimed and
\* uninitialised (arbitrary contents), the BUFFERS cell is empty.
BootInit ==
    /\ longterm_buffer \in [0..(Capacity - 1) -> SampleVals]
    /\ current_sample \in 0..(Capacity - 1)
    /\ detection_events = [i \in 0..(EventCap - 1) |-> None]
    /\ await_confirm \in BOOLEAN
    /\ STATUS_LEDS = Some(LedInit)
    /\ build \in {"debug", "release"}
    /\ panicked = FALSE
    /\ inserted = <<>>
    /\ aligned = TRUE
    /\ last = NoCall
    /\ buffers_claimed = FALSE
    /\ BUFFERS = FALSE
    /\ arith = NoArith
    /\ sched = Quiescent

\* singleton! hands out its storage on every call.
singleton_claim_always(claimed) == TRUE

\* singleton!(: Buffers = ...) returns Some only while the storage is unclaimed.
singleton_claim(claimed) == ~claimed

\* isize::MAX: no array or slice is longer, so it bounds every buffer length.
IsizeMax == (UsizeMax + 1) \div 2 - 1

\* A StatusLedMulti in each of its four states, the LED of the state asserted.
LedValues ==
    {[state |-> st, normal_led |-> (st = "Normal"), alert_led |-> (st = "Alert"),
      error_led |-> (st = "Error")] : st \in {"Normal", "Alert", "Error", "Disabled"}}

\* A SampleCounter with any value and a StatusLedMulti in any state (the
\* receivers of direct calls of their functions).
FnInit ==
    /\ longterm_buffer = [i \in 0..(Capacity - 1) |-> 0]
    /\ current_sample \in 0..UsizeMax
    /\ detection_events = [i \in 0..(EventCap - 1) |-> None]
    /\ await_confirm = FALSE
    /\ STATUS_LEDS \in {Some(l) : l \in LedValues}
    /\ build \in {"debug", "release"}
    /\ panicked = FALSE
    /\ inserted = <<>>
    /\ aligned = TRUE
    /\ last = NoCall
    /\ buffers_claimed = TRUE
    /\ BUFFERS = TRUE
    /\ arith = NoArith
    /\ sched = Quiescent

\* ---- operations ---------------------------------------------------------
\* Buffers::insert(sample), at most max calls.
Insert(sample, max) ==
    /\ ~panicked
    /\ BUFFERS
    /\ Len(inserted) < max
    /\ LET new_head == wrapping_counter_add(current_sample, 1, Capacity)
       IN  /\ last' = [NoCall EXCEPT !.op = "insert",
                          !.idx = {[idx |-> new_head, logical |-> current_sample + 1]}]
           /\ IF ~InBounds(new_head)
              THEN /\ panicked' = TRUE
                   /\ UNCHANGED <<longterm_buffer, current_sample, STATUS_LEDS>>
              ELSE /\ longterm_buffer' = [longterm_buffer EXCEPT ![new_head] = sample]
                   /\ current_sample' = increment(current_sample)
                   /\ IF increment_overflows(current_sample)
                      THEN IF STATUS_LEDS.some
                           THEN /\ STATUS_LEDS' = Some(set_error(STATUS_LEDS.val))
                                /\ panicked' = FALSE
                           ELSE /\ panicked' = NoLedPanic(STATUS_LEDS)
                                /\ UNCHANGED STATUS_LEDS
                      ELSE UNCHANGED <<STATUS_LEDS, panicked>>
    /\ inserted' = Append(inserted, sample)
    /\ aligned' = (aligned /\ last.op \in {"init", "detect"})
    /\ UNCHANGED <<detection_events, await_confirm, build>>
    /\ UNCHANGED aux

\* Buffers::detect_contact()
DetectContact ==
    /\ ~panicked
    /\ BUFFERS
    /\ LET c        == current_sample
           cur      == get_counter(c)
           back     == IF await_confirm THEN 2 ELSE 1
           prev     == wrapping_counter_sub(c, back, Capacity)
           ok       == InBounds(prev) /\ InBounds(cur)
           earlier  == IF ok THEN longterm_buffer[prev] ELSE 0
           later    == IF ok THEN longterm_buffer[cur] ELSE 0
           delta    == IF ok THEN U8Sub(earlier, later) ELSE Trap
           hit      == delta # Trap /\ delta >= INIT_TRIGGER_DELTA
           msg      == detection_idx(c)
           confirm  == await_confirm /\ hit /\ msg # Trap /\ STATUS_LEDS.some
       IN  /\ last' = [op |-> "detect",
                       idx |-> {[idx |-> prev, logical |-> c - back],
                                [idx |-> cur, logical |-> c]},
                       armedBefore |-> await_confirm,
                       alert |-> confirm,
                       earlier |-> earlier, later |-> later, compared |-> ok,
                       evicted |-> IF confirm THEN detection_events[EventCap - 1]
                                   ELSE None,
                       stateBefore |-> IF STATUS_LEDS.some THEN STATUS_LEDS.val.state
                                       ELSE "none",
                       lowered |-> IF confirm THEN set_alert_low(STATUS_LEDS.val)
                                   ELSE {}]
           /\ panicked' = \/ delta = Trap
                          \/ await_confirm /\ hit /\ msg = Trap
                          \/ await_confirm /\ hit /\ NoLedPanic(STATUS_LEDS)
           /\ IF confirm
              THEN /\ STATUS_LEDS' = Some(set_alert(STATUS_LEDS.val))
                   /\ detection_events' =
                          add_detection_event(detection_events, c, longterm_buffer)
                   /\ await_confirm' = FALSE
              ELSE /\ await_confirm' = (await_confirm \/ hit)
                   /\ UNCHANGED <<STATUS_LEDS, detection_events>>
    /\ aligned' = (aligned /\ last.op = "insert")
    /\ UNCHANGED <<longterm_buffer, current_sample, build, inserted>>
    /\ UNCHANGED aux

\* critical_section::with(|cs| StatusLedMulti::set_alert(cs, None))
SetAlertCall ==
    /\ ~panicked
    /\ IF STATUS_LEDS.some
       THEN STATUS_LEDS' = Some(set_alert(STATUS_LEDS.val)) /\ panicked' = FALSE
       ELSE panicked' = NoLedPanic(STATUS_LEDS) /\ UNCHANGED STATUS_LEDS
    /\ last' = [NoCall EXCEPT !.op = "set_alert",
                    !.stateBefore = IF STATUS_LEDS.some THEN STATUS_LEDS.val.state
                                    ELSE "none",
                    !.lowered = IF STATUS_LEDS.some THEN set_alert_low(STATUS_LEDS.val)
                                ELSE {}]
    /\ aligned' = FALSE
    /\ UNCHANGED <<longterm_buffer, current_sample, detection_events,
                   await_confirm, build, inserted>>
    /\ UNCHANGED aux

\* critical_section::with(|cs| StatusLedMulti::set_error(cs, None))
SetErrorCall ==
    /\ ~panicked
    /\ IF STATUS_LEDS.some
       THEN STATUS_LEDS' = Some(set_error(STATUS_LEDS.val)) /\ panicked' = FALSE
       ELSE panicked' = NoLedPanic(STATUS_LEDS) /\ UNCHANGED STATUS_LEDS
    /\ last' = [NoCall EXCEPT !.op = "set_error",
                    !.stateBefore = IF STATUS_LEDS.some THEN STATUS_LEDS.val.state
                                    ELSE "none",
                    !.lowered = IF STATUS_LEDS.some THEN set_error_low(STATUS_LEDS.val)
                                ELSE {}]
    /\ aligned' = FALSE
    /\ UNCHANGED <<longterm_buffer, current_sample, detection_events,
                   await_confirm, build, inserted>>
    /\ UNCHANGED aux

\* Buffers::init()
BuffersInit ==
    /\ ~panicked
    /\ IF singleton_claim(buffers_claimed)
       THEN /\ buffers_claimed' = TRUE
            /\ BUFFERS' = TRUE
            /\ longterm_buffer' = [i \in 0..(Capacity - 1) |-> 0]
            /\ current_sample' = 0
            /\ detection_events' = [i \in 0..(EventCap - 1) |-> None]
            /\ await_confirm' = FALSE
       ELSE UNCHANGED <<buffers_claimed, BUFFERS, longterm_buffer, current_sample,
                        detection_events, await_confirm>>
    /\ last' = [NoCall EXCEPT !.op = "buffers_init"]
    /\ aligned' = FALSE
    /\ UNCHANGED <<STATUS_LEDS, build, panicked, inserted, arith, sched>>

\* SampleCounter::increment() called on current_sample
IncrementCall ==
    /\ ~panicked
    /\ current_sample' = increment(current_sample)
    /\ IF increment_overflows(current_sample)
       THEN IF STATUS_LEDS.some
            THEN STATUS_LEDS' = Some(set_error(STATUS_LEDS.val)) /\ panicked' = FALSE
            ELSE panicked' = NoLedPanic(STATUS_LEDS) /\ UNCHANGED STATUS_LEDS
       ELSE UNCHANGED <<STATUS_LEDS, panicked>>
    /\ last' = [NoCall EXCEPT !.op = "increment",
                    !.stateBefore = IF STATUS_LEDS.some THEN STATUS_LEDS.val.state
                                    ELSE "none"]
    /\ aligned' = FALSE
    /\ UNCHANGED <<longterm_buffer, detection_events, await_confirm, build, inserted>>
    /\ UNCHANGED aux

\* SampleCounter(v).wrapping_counter_add(delta, limit)
ApplyAdd(v, delta, limit) ==
    /\ ~panicked
    /\ arith' = [fn |-> "add", v |-> v, delta |-> delta, limit |-> limit,
                 result |-> wrapping_counter_add(v, delta, limit)]
    /\ UNCHANGED <<longterm_buffer, current_sample, detection_events, await_confirm,
                   STATUS_LEDS, build, panicked, inserted, aligned, last,
                   buffers_claimed, BUFFERS, sched>>

\* SampleCounter(v).wrapping_counter_sub(delta, limit)
ApplySub(v, delta, limit) ==
    /\ ~panicked
    /\ arith' = [fn |-> "sub", v |-> v, delta |-> delta, limit |-> limit,
                 result |-> wrapping_counter_sub(v, delta, limit)]
    /\ UNCHANGED <<longterm_buffer, current_sample, detection_events, await_confirm,
                   STATUS_LEDS, build, panicked, inserted, aligned, last,
                   buffers_claimed, BUFFERS, sched>>

\* SampleCounter(SampleCounter(v).wrapping_counter_add(delta, limit))
\*     .wrapping_counter_sub(delta, limit)
ApplyRoundTrip(v, delta, limit) ==
    /\ ~panicked
    /\ LET sum == wrapping_counter_add(v, delta, limit)
       IN  arith' = [fn |-> "roundtrip", v |-> v, delta |-> delta, limit |-> limit,
                     result |-> IF sum = Trap THEN Trap
                                ELSE wrapping_counter_sub(sum, delta, limit)]
    /\ UNCHANGED <<longterm_buffer, current_sample, detection_events, await_confirm,
                   STATUS_LEDS, build, panicked, inserted, aligned, last,
                   buffers_claimed, BUFFERS, sched>>

Next ==
    \/ \E sample \in SampleVals : Insert(sample, MaxInserts)
    \/ DetectContact
    \/ SetAlertCall
    \/ SetErrorCall
    \/ BuffersInit

Spec == Init /\ [][Next]_vars

UnitNext ==
    \/ \E sample \in SampleVals : Insert(sample, MaxUnitInserts)
    \/ DetectContact
    \/ SetAlertCall
    \/ SetErrorCall

UnitSpec == UnitInit /\ [][UnitNext]_vars

\* ---- mainline and interrupt context, step by step ------------------------
\* The match of set_alert / set_error applied to the taken StatusLedMulti.
led_lower(status, target) ==
    LET low == IF target = "Alert" THEN set_alert_low(status) ELSE set_error_low(status)
    IN  [status EXCEPT !.normal_led = IF "normal" \in low THEN FALSE ELSE @,
                       !.alert_led  = IF "alert" \in low THEN FALSE ELSE @,
                       !.error_led  = IF "error" \in low THEN FALSE ELSE @]

\* status.alert_led.set_high() / status.error_led.set_high()
led_raise(status, target) ==
    IF target = "Alert" THEN [status EXCEPT !.alert_led = TRUE]
    ELSE [status EXCEPT !.error_led = TRUE]

\* status.state = StatusLedStates::Alert / ::Error
led_assign(status, target) == [status EXCEPT !.state = target]

\* The replace forgotten: the cell is left empty.
replace_dropped(status) == None

\* STATUS_LEDS.replace(cs, Some(status))
replace(status) == Some(status)

bufvars == <<longterm_buffer, current_sample, detection_events, await_confirm>>
history == <<inserted, aligned, last>>
fixed   == <<build, buffers_claimed, BUFFERS, arith>>

\* An arbitrary armed-or-idle Buffers value with the counter wrapped or at its
\* maximum, the LEDs initialised, mainline idle and interrupts enabled.
IrqInit ==
    /\ longterm_buffer \in [0..(Capacity - 1) -> {0, 200}]
    /\ current_sample \in {1, UsizeMax}
    /\ detection_events = [i \in 0..(EventCap - 1) |-> None]
    /\ await_confirm \in BOOLEAN
    /\ STATUS_LEDS = Some(LedInit)
    /\ build \in {"debug", "release"}
    /\ panicked = FALSE
    /\ inserted = <<>>
    /\ aligned = TRUE
    /\ last = NoCall
    /\ buffers_claimed = TRUE
    /\ BUFFERS = TRUE
    /\ arith = NoArith
    /\ sched = Quiescent

\* Context c may take a step: the interrupt handler runs to completion before
\* mainline resumes.
Running(c) ==
    /\ ~panicked
    /\ IF c = "irq" THEN sched.pc.irq # "off" ELSE sched.pc.irq = "off"

\* critical_section::with(|cs| ...): interrupts off; for a confirmation the
\* closure first builds DetectionMsg::create(self).
LedEnter(c) ==
    /\ Running(c)
    /\ sched.pc[c] = "enter"
    /\ IF c = "main" /\ sched.cont = "append" /\ detection_idx(current_sample) = Trap
       THEN /\ panicked' = TRUE
            /\ sched' = [sched EXCEPT !.cs = c]
       ELSE /\ panicked' = FALSE
            /\ sched' = [sched EXCEPT !.cs = c, !.pc[c] = "take"]
    /\ UNCHANGED <<STATUS_LEDS, bufvars, history, fixed>>

\* let status = STATUS_LEDS.take(cs).expect(..)
LedTake(c) ==
    /\ Running(c)
    /\ sched.pc[c] = "take"
    /\ IF STATUS_LEDS.some
       THEN /\ STATUS_LEDS' = None
            /\ sched' = [sched EXCEPT !.held[c] = STATUS_LEDS, !.pc[c] = "low"]
            /\ panicked' = FALSE
       ELSE /\ panicked' = NoLedPanic(STATUS_LEDS)
            /\ sched' = [sched EXCEPT !.noled = TRUE]
            /\ UNCHANGED STATUS_LEDS
    /\ UNCHANGED <<bufvars, history, fixed>>

\* match status.state { .. set_low() .. }
LedLow(c) ==
    /\ Running(c)
    /\ sched.pc[c] = "low"
    /\ sched' = [sched EXCEPT !.held[c] = Some(led_lower(@.val, sched.target[c])),
                              !.pc[c] = "high"]
    /\ UNCHANGED <<STATUS_LEDS, panicked, bufvars, history, fixed>>

\* set_high() on the LED of the new state
LedHigh(c) ==
    /\ Running(c)
    /\ sched.pc[c] = "high"
    /\ sched' = [sched EXCEPT !.held[c] = Some(led_raise(@.val, sched.target[c])),
                              !.pc[c] = "state"]
    /\ UNCHANGED <<STATUS_LEDS, panicked, bufvars, history, fixed>>

\* status.state = ..
LedAssign(c) ==
    /\ Running(c)
    /\ sched.pc[c] = "state"
    /\ sched' = [sched EXCEPT !.held[c] = Some(led_assign(@.val, sched.target[c])),
                              !.pc[c] = "replace"]
    /\ UNCHANGED <<STATUS_LEDS, panicked, bufvars, history, fixed>>

\* STATUS_LEDS.replace(cs, Some(status))
LedReplace(c) ==
    /\ Running(c)
    /\ sched.pc[c] = "replace"
    /\ STATUS_LEDS' = replace(sched.held[c].val)
    /\ sched' = [sched EXCEPT !.held[c] = None, !.pc[c] = "exit"]
    /\ UNCHANGED <<panicked, bufvars, history, fixed>>

\* The closure returns: interrupts on again, the caller continues.
LedExit(c) ==
    /\ Running(c)
    /\ sched.pc[c] = "exit"
    /\ sched' = [sched EXCEPT !.cs = "none",
                              !.pc[c] = IF c = "main" THEN sched.cont ELSE "off",
                              !.target[c] = "none",
                              !.cont = IF c = "main" THEN "idle" ELSE @,
                              !.pending = IF c = "main" /\ sched.cont = "append"
                                          THEN TRUE ELSE @]
    /\ UNCHANGED <<STATUS_LEDS, panicked, bufvars, history, fixed>>

\* Mainline: Buffers::insert(sample) up to the critical section of increment.
MainInsert(sample) ==
    /\ Running("main")
    /\ sched.pc.main = "idle"
    /\ BUFFERS
    /\ Len(inserted) < MaxUnitInserts
    /\ LET new_head == wrapping_counter_add(current_sample, 1, Capacity)
       IN  IF ~InBounds(new_head)
           THEN /\ panicked' = TRUE
                /\ UNCHANGED <<longterm_buffer, current_sample, sched>>
           ELSE /\ longterm_buffer' = [longterm_buffer EXCEPT ![new_head] = sample]
                /\ current_sample' = increment(current_sample)
                /\ panicked' = FALSE
                /\ sched' = IF increment_overflows(current_sample)
                            THEN [sched EXCEPT !.pc.main = "enter",
                                               !.target.main = "Error",
                                               !.cont = "idle"]
                            ELSE sched
    /\ inserted' = Append(inserted, sample)
    /\ UNCHANGED <<detection_events, await_confirm, STATUS_LEDS, aligned, last, fixed>>

\* Mainline: Buffers::detect_contact() up to its critical section.
MainDetect ==
    /\ Running("main")
    /\ sched.pc.main = "idle"
    /\ BUFFERS
    /\ LET c       == current_sample
           cur     == get_counter(c)
           back    == IF await_confirm THEN 2 ELSE 1
           prev    == wrapping_counter_sub(c, back, Capacity)
           ok      == InBounds(prev) /\ InBounds(cur)
           delta   == IF ok THEN U8Sub(longterm_buffer[prev], longterm_buffer[cur])
                      ELSE Trap
           hit     == delta # Trap /\ delta >= INIT_TRIGGER_DELTA
       IN  /\ panicked' = (delta = Trap)
           /\ IF await_confirm /\ hit
              THEN /\ sched' = [sched EXCEPT !.pc.main = "enter",
                                             !.target.main = "Alert",
                                             !.cont = "append"]
                   /\ UNCHANGED await_confirm
              ELSE /\ await_confirm' = (await_confirm \/ hit)
                   /\ UNCHANGED sched
    /\ UNCHANGED <<longterm_buffer, current_sample, detection_events, STATUS_LEDS,
                   history, fixed>>

\* Mainline: self.add_detection_event(), after the critical section.
MainAppend ==
    /\ Running("main")
    /\ sched.pc.main = "append"
    /\ detection_events' =
           add_detection_event(detection_events, current_sample, longterm_buffer)
    /\ sched' = [sched EXCEPT !.pc.main = "clear"]
    /\ UNCHANGED <<longterm_buffer, current_sample, await_confirm, STATUS_LEDS,
                   panicked, history, fixed>>

\* Mainline: self.await_confirm = false; detect_contact returns.
MainClear ==
    /\ Running("main")
    /\ sched.pc.main = "clear"
    /\ await_confirm' = FALSE
    /\ sched' = [sched EXCEPT !.pc.main = "idle", !.pending = FALSE]
    /\ UNCHANGED <<longterm_buffer, current_sample, detection_events, STATUS_LEDS,
                   panicked, history, fixed>>

\* Mainline: critical_section::with(|cs| StatusLedMulti::set_alert / set_error(cs, ..))
MainLedCall(target) ==
    /\ Running("main")
    /\ sched.pc.main = "idle"
    /\ sched' = [sched EXCEPT !.pc.main = "enter", !.target.main = target,
                              !.cont = "idle"]
    /\ UNCHANGED <<STATUS_LEDS, panicked, bufvars, history, fixed>>

\* An interrupt preempts mainline (interrupts are enabled) and its handler
\* calls set_alert / set_error in a critical section.
IrqFire(target) ==
    /\ ~panicked
    /\ sched.cs = "none"
    /\ sched.pc.irq = "off"
    /\ sched' = [sched EXCEPT !.pc.irq = "enter", !.target.irq = target]
    /\ UNCHANGED <<STATUS_LEDS, panicked, bufvars, history, fixed>>

IrqNext ==
    \/ \E sample \in {0, 200} : MainInsert(sample)
    \/ MainDetect
    \/ MainAppend
    \/ MainClear
    \/ \E target \in {"Alert", "Error"} : MainLedCall(target)
    \/ \E target \in {"Alert", "Error"} : IrqFire(target)
    \/ \E c \in {"main", "irq"} :
           \/ LedEnter(c)
           \/ LedTake(c)
           \/ LedLow(c)
           \/ LedHigh(c)
           \/ LedAssign(c)
           \/ LedReplace(c)
           \/ LedExit(c)

IrqSpec == IrqInit /\ [][IrqNext]_vars

NoLedSpec == NoLedInit /\ [][UnitNext]_vars

BootSpec == BootInit /\ [][Next]_vars

FnNext ==
    \/ IncrementCall
    \/ SetAlertCall
    \/ SetErrorCall

FnSpec == FnInit /\ [][FnNext]_vars

\* The wrapping arithmetic of SampleCounter applied to every counter value,
\* delta and buffer length within the bounds.
ArithNext ==
    \E limit \in 1..IsizeMax : \E v \in 0..(limit - 1) : \E delta \in 0..limit :
        \/ ApplyAdd(v, delta, limit)
        \/ ApplySub(v, delta, limit)
        \/ ApplyRoundTrip(v, delta, limit)

ArithSpec == Init /\ [][ArithNext]_vars

TypeOK ==
    /\ longterm_buffer \in [0..(Capacity - 1) -> 0..U8Max]
    /\ current_sample \in 0..UsizeMax
    /\ DOMAIN detection_events = 0..(EventCap - 1)
    /\ await_confirm \in BOOLEAN
    /\ panicked \in BOOLEAN

\* ---- helpers for the properties -----------------------------------------
Min(a, b) == IF a <= b THEN a ELSE b

IsPrefix(p, q) == Len(p) <= Len(q) /\ \A i \in 1..Len(p) : p[i] = q[i]

\* The LED state held in the STATUS_LEDS cell.
LedState == IF STATUS_LEDS.some THEN STATUS_LEDS.val.state ELSE "none"

NoEvents == \A i \in 0..(EventCap - 1) : ~detection_events[i].some

\* ---- C1 -----------------------------------------------------------------
\* C1: after k insert calls on a freshly initialised Buffers the logical
\* counter current_sample.get_counter() equals k.
C1_CounterCountsInserts ==
    ~panicked => get_counter(current_sample) = Len(inserted)

\* ---- C2 -----------------------------------------------------------------
\* C2: after n insert calls the last min(n, Capacity) inserted samples are
\* all stored, the most recent at slot current_sample mod Capacity and the
\* j-th before it j slots earlier.
C2_LastSamplesRetained ==
    ~panicked =>
        \A j \in 0..(Min(Len(inserted), Capacity) - 1) :
            longterm_buffer[(current_sample + Capacity - j) % Capacity]
                = inserted[Len(inserted) - j]

\* ---- C3 -----------------------------------------------------------------
\* C3: feeding insert then detect_contact per step, a drop >= 160 from the
\* previous sample while Idle arms the detector without raising an alert, and
\* a drop >= 160 from the sample two before the latest while Armed raises the
\* confirmed alert and returns to Idle.
C3_Debounce ==
    (aligned /\ last.op = "detect" /\ ~panicked) =>
        LET n == Len(inserted)
        IN  /\ (~last.armedBefore /\ n >= 2 /\ inserted[n - 1] - inserted[n] >= INIT_TRIGGER_DELTA)
                   => (await_confirm /\ ~last.alert /\ LedState = last.stateBefore)
            /\ (last.armedBefore /\ n >= 3 /\ inserted[n - 2] - inserted[n] >= INIT_TRIGGER_DELTA)
                   => (last.alert /\ ~await_confirm /\ LedState = "Alert")
            /\ ~last.armedBefore => ~last.alert

\* ---- C4 -----------------------------------------------------------------
\* C4: insert then detect_contact for 200, 200, 30, 200: Idle after steps 1
\* and 2, Armed after step 3 and still Armed after step 4, with no alert and
\* no detection event.
C4_EndToEnd ==
    (aligned /\ last.op = "detect" /\ IsPrefix(inserted, <<200, 200, 30, 200>>)) =>
        /\ ~panicked
        /\ Len(inserted) \in {1, 2} => ~await_confirm
        /\ Len(inserted) \in {3, 4} => await_confirm
        /\ ~last.alert
        /\ NoEvents

\* ---- C5 -----------------------------------------------------------------
\* C5: a detect_contact call in the Armed state that sees a drop >= 160 from
\* the sample two back returns with the LED state Alert, the pair (counter,
\* drop) at detection_events[0], the former entries shifted down by one, and
\* await_confirm false.
C5_ConfirmedDetection ==
    [][(await_confirm /\ last'.op = "detect" /\ last'.compared /\ ~panicked'
          /\ last'.earlier - last'.later >= INIT_TRIGGER_DELTA)
       => /\ LedState' = "Alert"
          /\ detection_events'[0] =
                 Some([counter |-> current_sample',
                       delta |-> last'.earlier - last'.later])
          /\ \A i \in 1..(EventCap - 1) : detection_events'[i] = detection_events[i - 1]
          /\ ~await_confirm']_vars

\* ---- C6 -----------------------------------------------------------------
\* C6: once Armed, an insert or detect_contact step at which the drop from
\* the sample two back is not >= 160 leaves await_confirm true, calls no
\* set_alert, leaves detection_events unchanged and evaluates no first-stage
\* check.
C6_StaysArmed ==
    [][(await_confirm /\ last'.op \in {"insert", "detect"}
          /\ ~(last'.op = "detect"
                 /\ last'.earlier - last'.later >= INIT_TRIGGER_DELTA))
       => /\ await_confirm'
          /\ ~last'.alert
          /\ detection_events' = detection_events
          /\ STATUS_LEDS' = STATUS_LEDS
          /\ (last'.op = "detect" => last'.armedBefore)]_vars

\* ---- C7 -----------------------------------------------------------------
\* C7: when the later sample is larger than the earlier one it is compared
\* with, detect_contact does not panic, does not arm in Idle and does not
\* confirm in Armed.
C7_RecoveryFailsTest ==
    (last.op = "detect" /\ last.compared /\ last.later > last.earlier) =>
        /\ ~panicked
        /\ ~last.armedBefore => ~await_confirm
        /\ last.armedBefore => (await_confirm /\ ~last.alert)

C9_History ==
    /\ [](/\ DOMAIN detection_events = 0..(EventCap - 1)
          /\ \A i \in 0..(EventCap - 2) :
                 detection_events[i + 1].some => detection_events[i].some)
    /\ [][IF last'.alert
          THEN /\ detection_events'[0] =
                      Some([counter |-> current_sample,
                            delta |-> longterm_buffer[get_counter(current_sample)]])
               /\ \A i \in 1..(EventCap - 1) :
                      detection_events'[i] = detection_events[i - 1]
          ELSE detection_events' = detection_events]_vars

\* An event was appended to a full history: the oldest entry was evicted.
C9_Witness ==
    /\ last.op = "detect"
    /\ last.alert
    /\ last.evicted.some
    /\ detection_events[0].some

\* ---- C10 ----------------------------------------------------------------
\* C10 as stated: once the LED state is Error it remains Error, with the
\* error LED asserted, after any set_alert or set_error.
C10_ErrorTerminal ==
    [][LedState = "Error" => (LedState' = "Error" /\ STATUS_LEDS'.val.error_led)]_vars

\* C10 amended: set_error never leaves Error (state Error, error LED
\* asserted); a set_alert in state Error, direct or from a confirmed
\* detection, yields Alert with the error LED off and the alert LED on; no
\* other call changes the LED state.
C10_ErrorExitsOnlyByAlert ==
    [][LedState = "Error" =>
          /\ STATUS_LEDS'.some
          /\ IF last'.op = "set_alert" \/ last'.alert
             THEN /\ LedState' = "Alert"
                  /\ STATUS_LEDS'.val.alert_led
                  /\ ~STATUS_LEDS'.val.error_led
             ELSE /\ LedState' = "Error"
                  /\ STATUS_LEDS'.val.error_led
                  /\ ~STATUS_LEDS'.val.alert_led]_vars

\* set_alert has just been called in state Error.
C10_Witness ==
    /\ last.op = "set_alert"
    /\ last.stateBefore = "Error"
    /\ LedState = "Alert"

\* ---- C11 ----------------------------------------------------------------
\* C11: increment called with the counter at its maximum leaves the counter
\* value unchanged and drives the LED state to Error; called with any smaller
\* value it leaves the LEDs untouched.
C11_IncrementAtMax ==
    [][last'.op = "increment" =>
          IF current_sample = UsizeMax
          THEN /\ current_sample' = current_sample
               /\ LedState' = "Error"
               /\ STATUS_LEDS'.val.error_led
               /\ ~panicked'
          ELSE STATUS_LEDS' = STATUS_LEDS]_vars

\* increment has just been called at the maximum and raised Error.
C11_Witness ==
    /\ last.op = "increment"
    /\ current_sample = UsizeMax
    /\ last.stateBefore \in {"Normal", "Alert"}
    /\ LedState = "Error"

\* ---- C14 ----------------------------------------------------------------
\* C14: for every buffer length limit and v in [0, limit),
\* wrapping_counter_add returns (v + delta) mod limit for delta in [0, limit)
\* and wrapping_counter_sub returns (v - delta) mod limit for delta in
\* [0, limit]; neither result is a panic or lies outside [0, limit).
C14_WrappingArithmetic ==
    /\ (arith.fn = "add" /\ arith.delta < arith.limit) =>
           /\ arith.result = (arith.v + arith.delta) % arith.limit
           /\ arith.result \in 0..(arith.limit - 1)
    /\ arith.fn = "sub" =>
           /\ arith.result = (arith.v - arith.delta + arith.limit) % arith.limit
           /\ arith.result \in 0..(arith.limit - 1)

\* wrapping_counter_sub has just wrapped with delta = limit.
C14_Witness ==
    /\ arith.fn = "sub"
    /\ arith.delta = arith.limit
    /\ arith.v > 0
    /\ arith.result = arith.v

\* ---- C15 ----------------------------------------------------------------
\* C15: for v and delta in [0, limit), wrapping_counter_sub(delta, limit) on
\* a counter holding wrapping_counter_add(delta, limit) of v returns v.
C15_RoundTrip ==
    (arith.fn = "roundtrip" /\ arith.delta < arith.limit) => arith.result = arith.v

\* A round trip whose addition wrapped past the limit.
C15_Witness ==
    /\ arith.fn = "roundtrip"
    /\ arith.delta > 0
    /\ arith.delta < arith.limit
    /\ arith.v + arith.delta >= arith.limit
    /\ arith.result = arith.v

\* ---- C12 ----------------------------------------------------------------
\* C12: in every state reached from StatusLedMulti::init the LED that is high
\* is exactly the one named by the state field (so at most one is high), and
\* the state is never Disabled.
C12_OneLedNamedByState ==
    STATUS_LEDS.some =>
        /\ STATUS_LEDS.val.state # "Disabled"
        /\ STATUS_LEDS.val.normal_led <=> (STATUS_LEDS.val.state = "Normal")
        /\ STATUS_LEDS.val.alert_led <=> (STATUS_LEDS.val.state = "Alert")
        /\ STATUS_LEDS.val.error_led <=> (STATUS_LEDS.val.state = "Error")

\* set_error has just moved the LEDs from Alert to Error.
C12_Witness ==
    /\ last.op = "set_error"
    /\ last.stateBefore = "Alert"
    /\ LedState = "Error"
    /\ STATUS_LEDS.val.error_led

\* ---- C13 ----------------------------------------------------------------
\* C13: set_alert from Normal yields Alert with the normal LED off and the
\* alert LED on; set_error from Alert yields Error with the alert LED off and
\* the error LED on; from Error, where the normal and alert LEDs are already
\* off, neither call drives the normal or the alert LED low.
C13_TransitionTable ==
    [][/\ (last'.op = "set_alert" /\ LedState = "Normal" /\ STATUS_LEDS.val.normal_led)
            => /\ LedState' = "Alert"
               /\ ~STATUS_LEDS'.val.normal_led
               /\ STATUS_LEDS'.val.alert_led
       /\ (last'.op = "set_error" /\ LedState = "Alert" /\ STATUS_LEDS.val.alert_led)
            => /\ LedState' = "Error"
               /\ ~STATUS_LEDS'.val.alert_led
               /\ STATUS_LEDS'.val.error_led
       /\ (last'.op \in {"set_alert", "set_error"} /\ LedState = "Error")
            => /\ ~STATUS_LEDS.val.normal_led /\ ~STATUS_LEDS.val.alert_led
               /\ last'.lowered \cap {"normal", "alert"} = {}
               /\ ~STATUS_LEDS'.val.normal_led]_vars

\* set_alert has just been called in state Normal.
C13_Witness ==
    /\ last.op = "set_alert"
    /\ last.stateBefore = "Normal"
    /\ last.lowered = {"normal"}
    /\ LedState = "Alert"

\* ---- C16 ----------------------------------------------------------------
\* C16: after at least one insert, detection_idx() returns get_counter() - 1,
\* a non-negative index, without underflow.
C16_DetectionIdx ==
    (Len(inserted) >= 1 /\ ~panicked) =>
        /\ detection_idx(current_sample) # Trap
        /\ detection_idx(current_sample) = get_counter(current_sample) - 1
        /\ detection_idx(current_sample) >= 0

\* ---- C17 ----------------------------------------------------------------
\* C17: with the STATUS_LEDS cell empty, set_error, set_alert and a
\* detect_contact that confirms a drop >= 160 panic, leaving the cell empty
\* and the detection events and await_confirm as they were.
C17_EmptyCellAborts ==
    [][(/\ ~STATUS_LEDS.some
        /\ \/ last'.op \in {"set_alert", "set_error"}
           \/ /\ last'.op = "detect"
              /\ await_confirm
              /\ last'.compared
              /\ last'.earlier - last'.later >= INIT_TRIGGER_DELTA)
       => /\ panicked'
          /\ STATUS_LEDS' = STATUS_LEDS
          /\ detection_events' = detection_events
          /\ await_confirm' = await_confirm]_vars

\* A confirmed detection has just panicked on the empty cell, no event appended.
C17_Witness ==
    /\ panicked
    /\ ~STATUS_LEDS.some
    /\ last.op = "detect"
    /\ last.armedBefore
    /\ last.earlier - last.later >= INIT_TRIGGER_DELTA
    /\ current_sample > 0
    /\ await_confirm
    /\ NoEvents

\* ---- C18 ----------------------------------------------------------------
\* C18: the first Buffers::init publishes a Buffers with zeroed storage,
\* counter 0, no events and await_confirm false; a later call changes neither
\* the published Buffers nor the LEDs; no call panics.
C18_InitIdempotent ==
    [][last'.op = "buffers_init" =>
          /\ ~panicked'
          /\ STATUS_LEDS' = STATUS_LEDS
          /\ BUFFERS' /\ buffers_claimed'
          /\ IF buffers_claimed
             THEN /\ BUFFERS
                  /\ longterm_buffer' = longterm_buffer
                  /\ current_sample' = current_sample
                  /\ detection_events' = detection_events
                  /\ await_confirm' = await_confirm
             ELSE /\ longterm_buffer' = [i \in 0..(Capacity - 1) |-> 0]
                  /\ current_sample' = 0
                  /\ \A i \in 0..(EventCap - 1) : ~detection_events'[i].some
                  /\ ~await_confirm']_vars

\* A later Buffers::init call has just left inserted data in place.
C18_Witness ==
    /\ last.op = "buffers_init"
    /\ Len(inserted) >= 1
    /\ longterm_buffer[1] # 0
    /\ BUFFERS

\* ---- C19 ----------------------------------------------------------------
\* C19: whenever interrupts are enabled and a confirmation has raised Alert,
\* its event is already in detection_events and await_confirm is already
\* false (both were done in the critical section that raised the Alert).
C19_AlertAndEventTogether ==
    (sched.cs = "none" /\ sched.pending /\ ~panicked) =>
        /\ sched.pc.main \notin {"append", "clear"}
        /\ detection_events[0].some
        /\ ~await_confirm

\* ---- C20 ----------------------------------------------------------------
\* C20: no take ever finds the STATUS_LEDS cell empty; a taken StatusLedMulti
\* is held only inside the critical section of the context that took it; with
\* interrupts enabled the cell holds a StatusLedMulti whose high LED is
\* exactly the one named by its state.
C20_TakeReplaceInCriticalSection ==
    /\ ~sched.noled
    /\ \A c \in {"main", "irq"} : sched.held[c].some => sched.cs = c
    /\ ~STATUS_LEDS.some => sched.cs # "none"
    /\ sched.cs = "none" =>
           /\ STATUS_LEDS.some
           /\ STATUS_LEDS.val.normal_led <=> (STATUS_LEDS.val.state = "Normal")
           /\ STATUS_LEDS.val.alert_led <=> (STATUS_LEDS.val.state = "Alert")
           /\ STATUS_LEDS.val.error_led <=> (STATUS_LEDS.val.state = "Error")

\* The interrupt handler has completed set_error after preempting mainline
\* between the confirmation's critical section and its event append.
C20_Witness ==
    /\ sched.pc.main = "append"
    /\ sched.pc.irq = "off"
    /\ sched.cs = "none"
    /\ LedState = "Error"
    /\ ~panicked
====
